---- MODULE Spec2Model ----
(***************************************************************************)
(* Model of the Figma-to-JSX converter: the React component App of         *)
(* src/src/App.tsx (text and file upload, one shared request) and of       *)
(* src/unnamed/part_000 (adds image paste, preview, a vision request and   *)
(* fenced-code extraction).  The variable impl says which of the two       *)
(* components is running.                                                   *)
(*                                                                         *)
(* Texts (JavaScript strings) are sequences of tokens: a token is one      *)
(* character of model output, or one whole literal of the source (an       *)
(* error message, a prompt).  The empty string is << >>.                   *)
(***************************************************************************)
EXTENDS Integers, Sequences, FiniteSets, TLC

VARIABLES
    impl,           \* "App" (src/src/App.tsx) or "part_000" (src/unnamed/part_000)
    figmaJson,      \* useState<string>("")
    imageFile,      \* useState<File | null>(null)
    imagePreview,   \* useState<string | null>(null): object URL, NoPreview when null
    generatedCode,  \* useState<string>("")
    loading,        \* useState<boolean>(false)
    pc,             \* position of the running convertFigmaToJSX
    runFile,        \* imageFile as captured by the running convertFigmaToJSX
    runJson,        \* figmaJson as captured by the running convertFigmaToJSX
    reader,         \* FileReader of fileToBase64: "none", "pending", "loaded", "failed"
    readerError,    \* reader.error.message once the read has failed
    encodePromise,  \* promise returned by fileToBase64
    fetchResult,    \* what fetch settled with (a response or a rejection)
    sent,           \* requests handed to fetch by the running convertFigmaToJSX
    pastePrevented, \* e.defaultPrevented of the last paste event
    urlsCreated,    \* number of URL.createObjectURL calls so far
    lastSet,        \* the most recent input operation that set a modality
    runs,           \* number of convertFigmaToJSX invocations so far
    pasted,         \* clipboard items of the paste event, while it is the last input
    urlsRevoked,    \* number of URL.revokeObjectURL calls so far
    runWrites,      \* results the running convertFigmaToJSX has written
    runAfter        \* kind of the last input operation when the run was started

vars == <<impl, figmaJson, imageFile, imagePreview, generatedCode, loading, pc,
          runFile, runJson, reader, readerError, encodePromise, fetchResult,
          sent, pastePrevented, urlsCreated, lastSet, runs, pasted, urlsRevoked,
          runWrites, runAfter>>

inputVars == <<figmaJson, imageFile, imagePreview, pastePrevented, urlsCreated, lastSet,
               pasted, urlsRevoked>>
runVars == <<generatedCode, loading, pc, runFile, runJson, reader, readerError,
             encodePromise, fetchResult, sent, runs, runWrites, runAfter>>

-----------------------------------------------------------------------------
(* Bounds *)

MaxRuns == 2
MaxUrls == 2
MaxItems == 2

-----------------------------------------------------------------------------
(* Values *)

Null == "null"
NoPreview == 0
Files == {"f1", "f2"}
Impls == {"App", "part_000"}

\* Whitespace as matched by \s and removed by String.prototype.trim
Whitespace == {" ", "\n"}

\* Texts the user types or pastes into the textarea
Texts == {<<"x">>}

\* FileReader.readAsDataURL: the data URL of a file's bytes
DataURL(f) == <<"data:image/png;base64,", f>>

\* What reader.result holds when onload fires: the data URL, or a value that
\* is no string (null)
ReaderResults(f) == {[isString |-> TRUE, text |-> DataURL(f)],
                     [isString |-> FALSE, text |-> << >>]}

ReadErrors == {"NotReadableError"}

\* Messages of the TypeError fetch rejects with
TransportErrors == {"Failed to fetch", "Load failed"}

\* Completion texts the service answers with
\* The backtick character, and the fence of three of them
Backtick == "BACKTICK"
Fence == <<Backtick, Backtick, Backtick>>
Contents ==
    { <<"a">>,
      <<" ", "a", "\n">>,
      Fence \o <<"j", "s", "x", "\n", "a", "\n">> \o Fence,
      <<"p", " ">> \o Fence \o <<"a">> \o Fence \o <<" ">> \o Fence \o <<"b">> \o Fence,
      Fence \o <<"j", "s", "\n", "a", "\n">> \o Fence,
      Fence \o <<"a">> }

\* JSON bodies of the completion endpoint
ChoiceOf(c) == [message |-> [content |-> c]]
OkBodies ==
    { [choices |-> <<ChoiceOf(c)>>] : c \in Contents \cup {<< >>} }
    \cup { [id |-> "chatcmpl"],
           [choices |-> << >>],
           [choices |-> <<[index |-> 0]>>] }
ErrorBodies ==
    { [error |-> [message |-> "Incorrect API key provided"]],
      [error |-> [type |-> "server_error"]],
      [id |-> "chatcmpl"] }

\* Responses fetch resolves with; parses says whether response.json() fulfils
Responses ==
    { [kind |-> "response", ok |-> TRUE, status |-> 200, parses |-> TRUE, json |-> b,
       error |-> Null] : b \in OkBodies }
    \cup { [kind |-> "response", ok |-> FALSE, status |-> 401, parses |-> TRUE, json |-> b,
            error |-> Null] : b \in ErrorBodies }
    \cup { [kind |-> "response", ok |-> o, status |-> IF o THEN 200 ELSE 502,
            parses |-> FALSE, json |-> [id |-> "none"], error |-> Null] : o \in BOOLEAN }

\* Rejections of fetch: a TypeError carrying a message
Rejections ==
    { [kind |-> "reject", ok |-> FALSE, status |-> 0, parses |-> FALSE,
       json |-> [id |-> "none"], error |-> m] : m \in TransportErrors }

NoResult == [kind |-> "none", ok |-> FALSE, status |-> 0, parses |-> FALSE,
             json |-> [id |-> "none"], error |-> Null]

-----------------------------------------------------------------------------
(* Thrown values: isError is (error instanceof Error) *)

ErrorOf(m) == [isError |-> TRUE, message |-> m]
\* reader.onerror = (error) => reject(error): the rejection value is the
\* ProgressEvent, which is no Error
ProgressEvent == [isError |-> FALSE, message |-> "undefined"]

SyntaxErrorMessage == "Unexpected token < in JSON at position 0"
TypeErrorReading(prop) ==
    ErrorOf(IF prop = "message"
            THEN "Cannot read properties of undefined (reading message)"
            ELSE "Cannot read properties of undefined (reading content)")

\* a catch that drops the caught error's message
CatchMessageGeneric(err) == "Unknown error"

\* error instanceof Error ? error.message : 'Unknown error'
CatchMessage(err) == IF err.isError THEN err.message ELSE "Unknown error"

\* template literal  Error: ${...}
ErrorText(m) == <<"Error: ", m>>
\* template literal  Error processing image: ${...}
ImageErrorText(m) == <<"Error processing image: ", m>>
CouldNotGenerate == ErrorText("Could not generate code. Please check your input.")
NoInputText == <<"Please provide either Figma JSON or upload a screenshot image.">>

-----------------------------------------------------------------------------
(* Response-code extraction: content.match(/```(?:jsx|tsx)?\s*([\s\S]*?)```/) *)

Min(S) == CHOOSE x \in S : \A y \in S : x <= y

IsFenceAt(s, i) ==
    /\ i + 2 <= Len(s)
    /\ s[i] = Backtick /\ s[i + 1] = Backtick /\ s[i + 2] = Backtick

\* positions from which a fence starts, at or after from
FenceStarts(s, from) == {i \in from..Len(s) : IsFenceAt(s, i)}

\* (?:jsx|tsx)?
LanguageTags == {<<"j", "s", "x">>, <<"t", "s", "x">>}
HasTagAt(s, i) == i + 2 <= Len(s) /\ SubSeq(s, i, i + 2) \in LanguageTags

\* \s* : the first position at or after i that holds no whitespace
RECURSIVE SkipWhitespace(_, _)
SkipWhitespace(s, i) ==
    IF i <= Len(s) /\ s[i] \in Whitespace THEN SkipWhitespace(s, i + 1) ELSE i

\* String.prototype.trim
RECURSIVE TrimEnd(_)
TrimEnd(s) ==
    IF Len(s) > 0 /\ s[Len(s)] \in Whitespace THEN TrimEnd(SubSeq(s, 1, Len(s) - 1)) ELSE s
Trim(s) == TrimEnd(SubSeq(s, SkipWhitespace(s, 1), Len(s)))

\* The match of the pattern: the leftmost opening fence, the optional tag,
\* the whitespace after it, then lazily up to the next fence.  The tag and
\* the whitespace hold no backtick, so giving them back on backtracking
\* opens no other match.
CodeMatch(content) ==
    LET opens == FenceStarts(content, 1) IN
    IF opens = {} THEN [found |-> FALSE, group |-> << >>]
    ELSE LET open == Min(opens)
             afterTag == IF HasTagAt(content, open + 3) THEN open + 6 ELSE open + 3
             body == SkipWhitespace(content, afterTag)
             closes == FenceStarts(content, body)
         IN IF closes = {} THEN [found |-> FALSE, group |-> << >>]
            ELSE [found |-> TRUE, group |-> SubSeq(content, body, Min(closes) - 1)]

\* codeMatch ? codeMatch[1].trim() : content
CleanedCode(content) ==
    LET codeMatch == CodeMatch(content) IN
    IF codeMatch.found THEN Trim(codeMatch.group) ELSE content

-----------------------------------------------------------------------------
(* Requests *)

\* an image request that kept the model and temperature of the text branch
ImageRequestTextModel(base64Image) ==
    [model |-> "gpt-4", system |-> TRUE,
     content |-> <<[type |-> "text", text |-> <<"Convert this UI design into React JSX code with Tailwind CSS.">>],
                   [type |-> "image_url", text |-> base64Image]>>,
     max_tokens |-> 4000, temperature |-> "0.1"]

\* part_000, image branch: the body handed to fetch
ImageRequest(base64Image) ==
    [model |-> "gpt-4o", system |-> TRUE,
     content |-> <<[type |-> "text", text |-> <<"Convert this UI design into React JSX code with Tailwind CSS.">>],
                   [type |-> "image_url", text |-> base64Image]>>,
     max_tokens |-> 4000, temperature |-> "0"]

\* part_000, text branch
TextRequest(json) ==
    [model |-> "gpt-4", system |-> FALSE,
     content |-> <<[type |-> "text",
                    text |-> <<"Create a React component with Tailwind CSS based on this Figma JSON. Figma JSON:", "\n">> \o json]>>,
     max_tokens |-> 4096, temperature |-> "0.1"]

\* App.tsx: the prompts, trimmed, and the one request built from a prompt
ImagePrompt(base64Image) ==
    Trim(<<"\n", "You are an expert converter that transforms an image screenshot. Image (base64):", "\n">>
         \o base64Image \o <<"\n", " ">>)
JsonPrompt(json) ==
    Trim(<<"\n", "You are an expert converter that transforms Figma design JSON. Figma JSON:", "\n">>
         \o json \o <<"\n", " ">>)
PromptRequest(prompt) ==
    [model |-> "gpt-4", system |-> FALSE,
     content |-> <<[type |-> "text", text |-> prompt]>>,
     max_tokens |-> 1500, temperature |-> "0"]

-----------------------------------------------------------------------------
(* What a settled response writes to generatedCode *)

HasField(obj, name) == name \in DOMAIN obj

\* errorData.error?.message || 'API request failed'
ServiceMessage(errorData) ==
    IF HasField(errorData, "error") /\ HasField(errorData.error, "message")
    THEN errorData.error.message
    ELSE "API request failed"

\* if (data.choices && data.choices[0].message.content) ... else ..., inside
\* the try whose catch writes the thrown error's message
ChoicesText(data, extract) ==
    IF ~HasField(data, "choices") THEN CouldNotGenerate
    ELSE IF Len(data.choices) = 0
         THEN ErrorText(CatchMessage(TypeErrorReading("message")))
    ELSE IF ~HasField(data.choices[1], "message")
         THEN ErrorText(CatchMessage(TypeErrorReading("content")))
    ELSE IF Len(data.choices[1].message.content) = 0 THEN CouldNotGenerate
    ELSE IF extract THEN CleanedCode(data.choices[1].message.content)
    ELSE data.choices[1].message.content

\* part_000 image branch, from the response to the end of the try/catch
ImageBranchText(resp) ==
    IF ~resp.parses THEN ErrorText(CatchMessage(ErrorOf(SyntaxErrorMessage)))
    ELSE IF ~resp.ok THEN ErrorText(CatchMessage(ErrorOf(ServiceMessage(resp.json))))
    ELSE ChoicesText(resp.json, TRUE)

\* part_000 text branch and App.tsx: no response.ok test, no extraction
PlainBranchText(resp) ==
    IF ~resp.parses THEN ErrorText(CatchMessage(ErrorOf(SyntaxErrorMessage)))
    ELSE ChoicesText(resp.json, FALSE)

-----------------------------------------------------------------------------
(* State after the component has mounted *)

NoSet == [kind |-> "none", file |-> Null, text |-> << >>]
Cleared == [kind |-> "clear", file |-> Null, text |-> << >>]
\* no paste event is the last input
NoPaste == <<[type |-> "none", file |-> Null]>>

Init ==
    /\ impl \in Impls
    /\ figmaJson = << >>
    /\ imageFile = Null
    /\ imagePreview = NoPreview
    /\ generatedCode = << >>
    /\ loading = FALSE
    /\ pc = "idle"
    /\ runFile = Null
    /\ runJson = << >>
    /\ reader = "none"
    /\ readerError = Null
    /\ encodePromise = "none"
    /\ fetchResult = NoResult
    /\ sent = << >>
    /\ pastePrevented = FALSE
    /\ urlsCreated = 0
    /\ lastSet = NoSet
    /\ runs = 0
    /\ pasted = NoPaste
    /\ urlsRevoked = 0
    /\ runWrites = 0
    /\ runAfter = "none"

-----------------------------------------------------------------------------
(* Input handlers *)

\* e.target.files of the file input: empty when the dialog is cancelled
FileLists == {<< >>} \cup {<<f>> : f \in Files}

\* a handleFileChange that keeps the text (as the one of App.tsx does)
HandleFileChangeKeepsText ==
    /\ \E files \in FileLists :
         IF Len(files) = 0 THEN UNCHANGED inputVars
         ELSE /\ urlsCreated < MaxUrls
              /\ imageFile' = files[1]
              /\ urlsCreated' = urlsCreated + 1
              /\ imagePreview' = urlsCreated + 1
              /\ lastSet' = [kind |-> "image", file |-> files[1], text |-> << >>]
              /\ pasted' = NoPaste
              /\ UNCHANGED <<figmaJson, pastePrevented, urlsRevoked>>
    /\ UNCHANGED <<impl, runVars>>

\* <input type="file" onChange={handleFileChange} />
HandleFileChange ==
    /\ \E files \in FileLists :
         IF Len(files) = 0 THEN UNCHANGED inputVars
         ELSE IF impl = "part_000"
         THEN /\ urlsCreated < MaxUrls
              /\ imageFile' = files[1]
              /\ urlsCreated' = urlsCreated + 1
              /\ imagePreview' = urlsCreated + 1
              /\ figmaJson' = << >>
              /\ lastSet' = [kind |-> "image", file |-> files[1], text |-> << >>]
              /\ pasted' = NoPaste
              /\ UNCHANGED <<pastePrevented, urlsRevoked>>
         ELSE /\ imageFile' = files[1]
              /\ lastSet' = [kind |-> "image", file |-> files[1], text |-> << >>]
              /\ pasted' = NoPaste
              /\ UNCHANGED <<figmaJson, imagePreview, urlsCreated, pastePrevented,
                             urlsRevoked>>
    /\ UNCHANGED <<impl, runVars>>

\* e.clipboardData.items: each item has a type, and a file when it is a file item
ClipboardItems ==
    {[type |-> "text/plain", file |-> Null], [type |-> "image/png", file |-> Null]}
    \cup {[type |-> "image/png", file |-> f] : f \in Files}
ItemLists == UNION {[1..n -> ClipboardItems] : n \in 0..MaxItems}

\* item.type.indexOf('image') !== -1
IsImageType(type) == type \in {"image/png", "image/jpeg"}

\* a view that shows the textarea next to the preview
TextAreaAlwaysRendered == TRUE

\* {imagePreview ? <img .../> : <textarea .../>}; App.tsx always shows the textarea
TextAreaRendered == IF impl = "part_000" THEN imagePreview = NoPreview ELSE TRUE

\* a loop that goes on to the last image item (no break)
LastImage(items) ==
    CHOOSE i \in 1..Len(items) :
        /\ IsImageType(items[i].type)
        /\ \A j \in 1..Len(items) : IsImageType(items[j].type) => j <= i

\* for (const item of items) { if (item.type.indexOf('image') !== -1) { ... break; } }:
\* the item the loop acts on, when there is an image item
FirstImage(items) == Min({i \in 1..Len(items) : IsImageType(items[i].type)})

\* <textarea onPaste={handlePaste} />
\* URL.createObjectURL of a File returns a URL and does not throw, so the
\* catch around the three setters is never entered.
HandlePaste ==
    /\ impl = "part_000"
    /\ TextAreaRendered
    /\ \E items \in ItemLists :
         LET images == {i \in 1..Len(items) : IsImageType(items[i].type)} IN
         /\ pasted' = items
         /\ UNCHANGED urlsRevoked
         /\ IF images = {} THEN /\ pastePrevented' = FALSE
                                /\ UNCHANGED <<figmaJson, imageFile, imagePreview,
                                               urlsCreated, lastSet>>
            ELSE LET file == items[FirstImage(items)].file IN
                 /\ pastePrevented' = TRUE
                 /\ IF file # Null
                    THEN /\ urlsCreated < MaxUrls
                         /\ imageFile' = file
                         /\ urlsCreated' = urlsCreated + 1
                         /\ imagePreview' = urlsCreated + 1
                         /\ figmaJson' = << >>
                         /\ lastSet' = [kind |-> "image", file |-> file, text |-> << >>]
                    ELSE UNCHANGED <<figmaJson, imageFile, imagePreview, urlsCreated,
                                     lastSet>>
    /\ UNCHANGED <<impl, runVars>>

\* <textarea onChange={(e) => setFigmaJson(e.target.value)} />
TextChange ==
    /\ TextAreaRendered
    /\ \E value \in Texts \cup {<< >>} :
         /\ figmaJson' = value
         /\ lastSet' = [kind |-> "text", file |-> Null, text |-> value]
    /\ pasted' = NoPaste
    /\ UNCHANGED <<impl, imageFile, imagePreview, pastePrevented, urlsCreated,
                   urlsRevoked, runVars>>

\* a clear button that resets the preview and keeps the file
ClearPreviewOnly ==
    /\ impl = "part_000"
    /\ imagePreview # NoPreview
    /\ imagePreview' = NoPreview
    /\ lastSet' = Cleared
    /\ pasted' = NoPaste
    /\ UNCHANGED <<impl, imageFile, figmaJson, pastePrevented, urlsCreated, urlsRevoked,
                   runVars>>

\* the clear button of the preview
ClearImage ==
    /\ impl = "part_000"
    /\ imagePreview # NoPreview
    /\ imagePreview' = NoPreview
    /\ imageFile' = Null
    /\ lastSet' = Cleared
    /\ pasted' = NoPaste
    /\ UNCHANGED <<impl, figmaJson, pastePrevented, urlsCreated, urlsRevoked, runVars>>

-----------------------------------------------------------------------------
(* convertFigmaToJSX *)

\* a branch test without the final else
BranchWithoutEmpty(file, json) == IF file # Null THEN "image" ELSE "text"

\* which branch of if (imageFile) ... else if (figmaJson) ... else runs
Branch(file, json) ==
    IF file # Null THEN "image" ELSE IF Len(json) > 0 THEN "text" ELSE "empty"

\* loading after the run has ended: the text branch of part_000 ends without
\* setLoading(false)
LoadingAfterRun ==
    IF impl = "part_000" /\ Branch(runFile, runJson) = "text" THEN loading ELSE FALSE

\* an image branch that calls fetch without awaiting fileToBase64
RequestsBeforeEncoding(file, json) ==
    IF file # Null THEN <<ImageRequest(DataURL(file))>>
    ELSE IF Len(json) = 0 THEN << >>
    ELSE IF impl = "part_000" THEN <<TextRequest(json)>>
    ELSE <<PromptRequest(JsonPrompt(json))>>

\* the requests handed to fetch before the first await: the image branch
\* awaits fileToBase64 first, the text branch calls fetch at once
RequestsAtStart(file, json) ==
    IF Branch(file, json) # "text" THEN << >>
    ELSE IF impl = "part_000" THEN <<TextRequest(json)>>
    ELSE <<PromptRequest(JsonPrompt(json))>>

\* a start that leaves the previous result on display
ResultKeptAtStart(branch, previous) ==
    IF branch = "empty" THEN NoInputText ELSE previous

\* generatedCode when the synchronous part has run: setGeneratedCode("") and,
\* in the final else, the no-input message
ResultAtStart(branch, previous) ==
    IF branch = "empty" THEN NoInputText ELSE << >>

\* a Convert button that is never disabled
ConvertAlwaysEnabled == TRUE

\* <button onClick={convertFigmaToJSX} disabled={loading}>
ConvertEnabled == ~loading

\* a click on the Convert button: the synchronous part of convertFigmaToJSX,
\* up to the first await
Start ==
    /\ ConvertEnabled
    /\ runs < MaxRuns
    /\ runs' = runs + 1
    /\ runFile' = imageFile
    /\ runJson' = figmaJson
    /\ fetchResult' = NoResult
    /\ readerError' = Null
    /\ runAfter' = lastSet.kind
    /\ runWrites' = IF Branch(imageFile, figmaJson) = "empty" THEN 1 ELSE 0
    /\ IF Branch(imageFile, figmaJson) = "image"
       THEN /\ loading' = TRUE
            /\ generatedCode' = ResultAtStart(Branch(imageFile, figmaJson), generatedCode)
            /\ reader' = "pending"
            /\ encodePromise' = "pending"
            /\ sent' = RequestsAtStart(imageFile, figmaJson)
            /\ pc' = "encoding"
       ELSE IF Branch(imageFile, figmaJson) = "text"
       THEN /\ loading' = TRUE
            /\ generatedCode' = ResultAtStart(Branch(imageFile, figmaJson), generatedCode)
            /\ reader' = "none"
            /\ encodePromise' = "none"
            /\ sent' = RequestsAtStart(imageFile, figmaJson)
            /\ pc' = "fetching"
       ELSE /\ loading' = FALSE
            /\ generatedCode' = ResultAtStart(Branch(imageFile, figmaJson), generatedCode)
            /\ reader' = "none"
            /\ encodePromise' = "none"
            /\ sent' = << >>
            /\ pc' = "done"
    /\ UNCHANGED <<impl, inputVars>>

\* a read of whatever image the component holds when the reader fires
FileHeldNow == imageFile

\* fileToBase64(imageFile): the file handed to the reader is the imageFile of
\* the closure that was invoked
FileBeingRead == runFile

\* reader.onload fires: fileToBase64 settles (or not) and the run goes on to
\* its fetch or to its catch
ReaderLoads ==
    /\ pc = "encoding"
    /\ reader = "pending"
    /\ reader' = "loaded"
    /\ \E result \in ReaderResults(FileBeingRead) :
         IF impl = "part_000"
         THEN IF result.isString
              THEN /\ encodePromise' = "resolved"
                   /\ sent' = <<ImageRequest(result.text)>>
                   /\ pc' = "fetching"
                   /\ UNCHANGED <<generatedCode, loading, runWrites>>
              ELSE /\ encodePromise' = "rejected"
                   /\ generatedCode' =
                        ErrorText(CatchMessage(ErrorOf("Failed to convert file to base64")))
                   /\ loading' = FALSE
                   /\ runWrites' = runWrites + 1
                   /\ pc' = "done"
                   /\ UNCHANGED sent
         ELSE IF result.isString /\ Len(result.text) > 0
              THEN /\ encodePromise' = "resolved"
                   /\ sent' = <<PromptRequest(ImagePrompt(result.text))>>
                   /\ pc' = "fetching"
                   /\ UNCHANGED <<generatedCode, loading, runWrites>>
              ELSE UNCHANGED <<encodePromise, sent, pc, generatedCode, loading, runWrites>>
    /\ UNCHANGED <<impl, inputVars, runFile, runJson, readerError, fetchResult, runs,
                   runAfter>>

\* reader.onerror fires: reject(error) with the ProgressEvent
ReaderFails ==
    /\ pc = "encoding"
    /\ reader = "pending"
    /\ reader' = "failed"
    /\ \E m \in ReadErrors : readerError' = m
    /\ encodePromise' = "rejected"
    /\ generatedCode' = IF impl = "part_000"
                        THEN ErrorText(CatchMessage(ProgressEvent))
                        ELSE ImageErrorText(CatchMessage(ProgressEvent))
    /\ loading' = FALSE
    /\ runWrites' = runWrites + 1
    /\ pc' = "done"
    /\ UNCHANGED <<impl, inputVars, runFile, runJson, fetchResult, sent, runs, runAfter>>

\* fetch settles; a response leaves the run awaiting response.json()
FetchSettles ==
    /\ pc = "fetching"
    /\ \E r \in Responses \cup Rejections :
         /\ fetchResult' = r
         /\ IF r.kind = "reject"
            THEN /\ generatedCode' = ErrorText(CatchMessage(ErrorOf(r.error)))
                 /\ loading' = LoadingAfterRun
                 /\ runWrites' = runWrites + 1
                 /\ pc' = "done"
            ELSE /\ pc' = "parsing"
                 /\ UNCHANGED <<generatedCode, loading, runWrites>>
    /\ UNCHANGED <<impl, inputVars, runFile, runJson, reader, readerError,
                   encodePromise, sent, runs, runAfter>>

\* response.json() settles and the run ends
JsonSettles ==
    /\ pc = "parsing"
    /\ generatedCode' = IF impl = "part_000" /\ Branch(runFile, runJson) = "image"
                        THEN ImageBranchText(fetchResult)
                        ELSE PlainBranchText(fetchResult)
    /\ loading' = LoadingAfterRun
    /\ runWrites' = runWrites + 1
    /\ pc' = "done"
    /\ UNCHANGED <<impl, inputVars, runFile, runJson, reader, readerError,
                   encodePromise, fetchResult, sent, runs, runAfter>>

Next ==
    \/ HandleFileChange
    \/ HandlePaste
    \/ TextChange
    \/ ClearImage
    \/ Start
    \/ ReaderLoads
    \/ ReaderFails
    \/ FetchSettles
    \/ JsonSettles

Spec == Init /\ [][Next]_vars

-----------------------------------------------------------------------------
(* Properties *)

\* C1: once a run of convertFigmaToJSX has settled, loading is false again.
C1_LoadingClearedWhenSettled == pc = "done" => loading = FALSE

\* C2: a run started with imageFile = null and figmaJson = "" ends at once
\* with the no-input message and hands no request to fetch.
C2_EmptyInputFails ==
    (pc # "idle" /\ runFile = Null /\ runJson = << >>)
        => /\ pc = "done"
           /\ generatedCode = NoInputText
           /\ sent = << >>
C2_Witness ==
    /\ pc = "done" /\ runs > 0
    /\ runFile = Null /\ runJson = << >>
    /\ generatedCode = NoInputText

\* C3: in part_000, imageFile is never non-null while figmaJson is non-empty.
C3_MutuallyExclusive ==
    impl = "part_000" => ~(imageFile # Null /\ figmaJson # << >>)
\* an image is held after a text run: setting the image has cleared the text
C3_Witness ==
    /\ impl = "part_000"
    /\ pc = "done" /\ runJson # << >>
    /\ imageFile # Null /\ figmaJson = << >>

\* C4: in part_000 the most recent set wins: after a text entry only that
\* text is held, after a file selection or an image paste only that image.
C4_LastSetWins ==
    impl = "part_000" =>
        /\ lastSet.kind = "text" => (imageFile = Null /\ figmaJson = lastSet.text)
        /\ lastSet.kind = "image" => (imageFile = lastSet.file /\ figmaJson = << >>)
\* text x entered after an image had been selected
C4_Witness ==
    /\ impl = "part_000"
    /\ urlsCreated > 0
    /\ lastSet.kind = "text" /\ lastSet.text = <<"x">>
    /\ figmaJson = <<"x">> /\ imageFile = Null

\* C5: in part_000 a non-2xx answer with body {error:{message:m}} ends the
\* run with Error: m; with an unparseable body it ends with an error message
\* that is not the raw parse error.
C5_ServiceErrorSurfaced ==
    (impl = "part_000" /\ pc = "done" /\ fetchResult.kind = "response" /\ ~fetchResult.ok)
        => IF ~fetchResult.parses
           THEN /\ generatedCode[1] = "Error: "
                /\ generatedCode # ErrorText(SyntaxErrorMessage)
           ELSE (HasField(fetchResult.json, "error")
                 /\ HasField(fetchResult.json.error, "message"))
                    => generatedCode = ErrorText(fetchResult.json.error.message)

\* a body with a first choice that carries non-empty content
WellFormed(data) ==
    /\ HasField(data, "choices")
    /\ Len(data.choices) > 0
    /\ HasField(data.choices[1], "message")
    /\ Len(data.choices[1].message.content) > 0

\* C6: in part_000 a 2xx answer whose body lacks a well-formed result ends
\* the run with exactly the fixed could-not-generate message.
C6_MalformedBodyFixedMessage ==
    (impl = "part_000" /\ pc = "done" /\ fetchResult.kind = "response"
     /\ fetchResult.ok /\ fetchResult.parses /\ ~WellFormed(fetchResult.json))
        => generatedCode = CouldNotGenerate

\* C7: when fetch rejects, the run ends with Error: followed by the message
\* of the rejection, and exactly one request was handed to fetch.
C7_TransportFailure ==
    (pc = "done" /\ fetchResult.kind = "reject")
        => /\ generatedCode = ErrorText(fetchResult.error)
           /\ Len(sent) = 1
C7_Witness ==
    /\ pc = "done" /\ fetchResult.kind = "reject"
    /\ fetchResult.error = "Load failed"
    /\ Branch(runFile, runJson) = "image"

\* the message of the encoding failure: that of the read error, or that of
\* the non-text result
EncodingFailureMessage ==
    IF reader = "failed" THEN readerError ELSE "Failed to convert file to base64"

\* C8: in part_000 an image run whose encoder fails ends with the encoding
\* error's message and hands no request to fetch.
C8_EncodingFailureAborts ==
    (impl = "part_000" /\ pc = "done" /\ encodePromise = "rejected")
        => /\ generatedCode = ErrorText(EncodingFailureMessage)
           /\ sent = << >>

\* C9: once the FileReader has fired onload or onerror, the promise of
\* fileToBase64 is settled.
C9_EncoderSettles ==
    reader \in {"loaded", "failed"} => encodePromise \in {"resolved", "rejected"}

\* The rule as C10 states it: the trimmed interior of the first fenced block
\* without its language tag (the word between the opening fence and the end
\* of its line), or the trimmed text when there is no fenced block.
RECURSIVE WordEnd(_, _)
WordEnd(s, i) ==
    IF i <= Len(s) /\ s[i] \notin Whitespace /\ s[i] # Backtick THEN WordEnd(s, i + 1) ELSE i
StatedExtract(text) ==
    LET opens == FenceStarts(text, 1) IN
    IF opens = {} THEN Trim(text)
    ELSE LET open == Min(opens)
             closes == FenceStarts(text, open + 3)
         IN IF closes = {} THEN Trim(text)
            ELSE LET close == Min(closes)
                     tagEnd == WordEnd(text, open + 3)
                     body == IF tagEnd < close /\ text[tagEnd] = "\n" THEN tagEnd ELSE open + 3
                 IN Trim(SubSeq(text, body, close - 1))

\* C10: the code stored by a successful image run of part_000 is the stated
\* extraction of the completion text.
C10_ExtractionRule ==
    (impl = "part_000" /\ pc = "done" /\ Branch(runFile, runJson) = "image"
     /\ fetchResult.kind = "response" /\ fetchResult.ok /\ fetchResult.parses
     /\ WellFormed(fetchResult.json))
        => generatedCode = StatedExtract(fetchResult.json.choices[1].message.content)

\* a run that ended with a response carrying a well-formed result
Succeeded ==
    /\ pc = "done"
    /\ fetchResult.kind = "response" /\ fetchResult.parses
    /\ WellFormed(fetchResult.json)
    /\ (impl = "part_000" /\ Branch(runFile, runJson) = "image") => fetchResult.ok

\* C11: after a successful conversion of part_000, in the image and in the
\* text branch, generatedCode is the extraction (CleanedCode) of the first
\* choice's content.
C11_ResultIsExtracted ==
    (impl = "part_000" /\ Succeeded)
        => generatedCode = CleanedCode(fetchResult.json.choices[1].message.content)

\* the image items of a list of clipboard items, by position
ImageItems(items) == {i \in 1..Len(items) : IsImageType(items[i].type)}

\* C12 as stated: whenever a paste holds an image item, the default paste is
\* suppressed, the first image item becomes the active image and the text is
\* cleared; with no image item the default paste is not suppressed and
\* imageFile, imagePreview and figmaJson stay as they were.
C12_FirstImageBecomesActive ==
    [][pasted' # NoPaste =>
        IF ImageItems(pasted') = {}
        THEN /\ pastePrevented' = FALSE
             /\ UNCHANGED <<imageFile, imagePreview, figmaJson>>
        ELSE /\ pastePrevented' = TRUE
             /\ imageFile' # Null
             /\ imageFile' = pasted'[Min(ImageItems(pasted'))].file
             /\ imagePreview' # NoPreview
             /\ figmaJson' = << >>]_vars

\* C12 as amended: the first image item alone decides.  The default paste is
\* suppressed; if that item yields a file (getAsFile), the file becomes the
\* active image and the text is cleared, whatever the later items are; if it
\* yields none, nothing is set.  With no image item the default paste is not
\* suppressed and imageFile, imagePreview and figmaJson stay as they were.
C12_FirstImageOnly ==
    [][pasted' # NoPaste =>
        IF ImageItems(pasted') = {}
        THEN /\ pastePrevented' = FALSE
             /\ UNCHANGED <<imageFile, imagePreview, figmaJson>>
        ELSE /\ pastePrevented' = TRUE
             /\ IF pasted'[Min(ImageItems(pasted'))].file # Null
                THEN /\ imageFile' = pasted'[Min(ImageItems(pasted'))].file
                     /\ imagePreview' # NoPreview
                     /\ figmaJson' = << >>
                ELSE UNCHANGED <<imageFile, imagePreview, figmaJson>>]_vars
\* two image items with different files were pasted: the first is the image
C12_Witness ==
    /\ pasted # NoPaste /\ Len(pasted) = 2
    /\ ImageItems(pasted) = {1, 2}
    /\ pasted[1].file # Null /\ pasted[2].file # Null /\ pasted[1].file # pasted[2].file
    /\ imageFile = pasted[1].file
    /\ pastePrevented = TRUE

\* the image parts of the user message of a request
ImageParts(request) ==
    {i \in 1..Len(request.content) : request.content[i].type = "image_url"}

\* C13: in part_000, after an image item with a file has been pasted the
\* image is the active modality; every run starts from the image held at
\* that moment; and the request of an image run names the vision model,
\* temperature 0 and exactly one image part, whose url is the data URL of
\* the image the run started from.
C13_PastedImageRequest ==
    /\ [](impl = "part_000" =>
            /\ (pasted # NoPaste /\ ImageItems(pasted) # {}
                /\ pasted[Min(ImageItems(pasted))].file # Null)
                   => (imageFile = pasted[Min(ImageItems(pasted))].file /\ figmaJson = << >>)
            /\ (Branch(runFile, runJson) = "image" /\ sent # << >>)
                   => /\ Len(sent) = 1
                      /\ sent[1].model = "gpt-4o"
                      /\ sent[1].temperature = "0"
                      /\ Cardinality(ImageParts(sent[1])) = 1
                      /\ \A i \in ImageParts(sent[1]) :
                            sent[1].content[i].text = DataURL(runFile))
    /\ [][runs' = runs + 1 => (runFile' = imageFile /\ runJson' = figmaJson)]_vars
\* the only image ever set was pasted, and the run started from it has sent
\* its request
C13_Witness ==
    /\ impl = "part_000"
    /\ urlsCreated = 1
    /\ pasted # NoPaste /\ ImageItems(pasted) # {}
    /\ pasted[Min(ImageItems(pasted))].type = "image/png"
    /\ runFile = pasted[Min(ImageItems(pasted))].file /\ runFile # Null
    /\ runAfter = "image"
    /\ sent # << >>

\* preview URLs created and not revoked
LiveUrls == urlsCreated - urlsRevoked

\* C14: in part_000 at most one preview URL is created and not revoked, and
\* none when no image is held.
C14_PreviewUrlsRevoked ==
    impl = "part_000" => (LiveUrls <= 1 /\ (imageFile = Null => LiveUrls = 0))

\* a run of convertFigmaToJSX is suspended at one of its awaits
InFlight == pc \in {"encoding", "fetching", "parsing"}

\* C15: while a run is in flight loading is true, and convertFigmaToJSX is
\* invoked only while no run is in flight.
C15_OneRunInFlight ==
    /\ [](InFlight => loading)
    /\ [][runs' # runs => ~InFlight]_vars
\* a second run is in flight, the first having ended
C15_Witness == runs = 2 /\ InFlight /\ loading

\* C16: in an image run the request is sent only once the encoder has
\* resolved, a response or rejection exists only once a request was sent,
\* the response is parsed only once it has arrived, and the result is
\* written only as the last step of the run.
C16_ImageStepsInOrder ==
    (Branch(runFile, runJson) = "image" /\ pc # "idle") =>
        /\ sent # << >> => (reader = "loaded" /\ encodePromise = "resolved")
        /\ pc = "encoding" => (sent = << >> /\ fetchResult.kind = "none")
        /\ fetchResult.kind # "none" => sent # << >>
        /\ pc = "parsing" => fetchResult.kind = "response"
        /\ runWrites > 0 => pc = "done"
        /\ (pc = "done" /\ encodePromise = "resolved") => fetchResult.kind # "none"
\* an image run of part_000 went through all four steps and stored the
\* interior of a fenced block
C16_Witness ==
    /\ impl = "part_000" /\ Branch(runFile, runJson) = "image"
    /\ Succeeded
    /\ encodePromise = "resolved" /\ Len(sent) = 1 /\ runWrites = 1
    /\ CodeMatch(fetchResult.json.choices[1].message.content).found
    /\ generatedCode = <<"a">>

\* C17: a run in flight has discarded the previous result and has written
\* nothing yet; a run that has ended has written its result exactly once;
\* and the result of an ended run stays as it is until the next start.
C17_OneTerminalWrite ==
    /\ [](/\ InFlight => (generatedCode = << >> /\ runWrites = 0)
          /\ pc = "done" => runWrites = 1)
    /\ [][(pc = "done" /\ runs' = runs) => (pc' = "done" /\ generatedCode' = generatedCode)]_vars
\* a second run, started over the result of the first, has ended with a result
C17_Witness ==
    /\ runs = 2 /\ pc = "done" /\ runWrites = 1
    /\ Branch(runFile, runJson) # "empty"
    /\ generatedCode # << >>

\* the request a run builds from the image and the text it started with
RequestOf(file, json) ==
    IF impl = "part_000"
    THEN IF file # Null THEN ImageRequest(DataURL(file)) ELSE TextRequest(json)
    ELSE IF file # Null THEN PromptRequest(ImagePrompt(DataURL(file)))
         ELSE PromptRequest(JsonPrompt(json))

\* C18: whatever the input handlers do while a run is in flight, the request
\* of the run is the one built from the image or text it started with, and
\* a step that changes the inputs leaves the run as it is.
C18_RunKeepsItsInput ==
    /\ [](sent # << >> => sent = <<RequestOf(runFile, runJson)>>)
    /\ [][inputVars' # inputVars => UNCHANGED runVars]_vars
\* the image was cleared or replaced while the run was suspended, and the
\* run has sent the image it started with and awaits the parsed response
C18_Witness ==
    /\ pc = "parsing"
    /\ runFile # Null /\ imageFile # runFile
    /\ sent = <<RequestOf(runFile, runJson)>>

\* C19: in part_000 a preview is held exactly when a file is held, the
\* textarea is rendered exactly when no image is held, and a run started
\* after a clear with no input since is an empty-input run.
C19_PreviewIffFile ==
    impl = "part_000" =>
        /\ imagePreview # NoPreview <=> imageFile # Null
        /\ TextAreaRendered <=> imageFile = Null
        /\ lastSet = Cleared => (imageFile = Null /\ figmaJson = << >>)
        /\ runAfter = "clear"
              => (runFile = Null /\ runJson = << >> /\ pc = "done"
                  /\ generatedCode = NoInputText /\ sent = << >>)
\* an image was selected and cleared, and the run started next found no input
C19_Witness ==
    /\ impl = "part_000"
    /\ urlsCreated > 0 /\ imagePreview = NoPreview
    /\ runAfter = "clear" /\ pc = "done"
    /\ generatedCode = NoInputText

====
